---- MODULE Spec2Model ----
(***************************************************************************)
(* Tibber Pulse (Kaifa) local decoder: HDLC unescape, anchor search, TLV   *)
(* walk, heuristic field mapping (decoder.py); the MQTT listener's         *)
(* subscribe/unsubscribe life cycle (mqtt_listener.py); the push           *)
(* coordinator's snapshot and the sensors reading it (__init__.py,         *)
(* sensor.py).                                                             *)
(*                                                                         *)
(* A byte string is a sequence over 0..255.  The source indexes from 0:    *)
(* the byte Python calls data[k] is the element data[k + 1] here, and all  *)
(* cursors (i, tlv_start, ...) keep the source's 0-based values.           *)
(***************************************************************************)
EXTENDS Integers, Sequences, FiniteSets, TLC

\* ------------------------------------------------------------------ values

\* Python's None (a missing timestamp, a missing snapshot, a sensor without value).
None == "<None>"

\* The empty dict {}.
EmptyMap == [k \in {} |-> 0]

\* d[k] = v on a dict.
Put(d, k, v) == [x \in (DOMAIN d) \cup {k} |-> IF x = k THEN v ELSE d[x]]

\* d.setdefault(k, []).append(v)
AppendTo(d, k, v) == Put(d, k, Append(IF k \in DOMAIN d THEN d[k] ELSE <<>>, v))

\* v / 1000.0 and v / 10.0: the quotient as an exact decimal, whole part and
\* fractional part in units of 1/den (150000 / 1000.0 is whole 150, frac 0).
Scaled(v, den) == [whole |-> v \div den, frac |-> v % den, den |-> den]

\* data[a:b] for 0 <= a: Python clips the slice to the buffer, it never raises.
Slice(data, a, b) ==
    LET hi == IF b < Len(data) THEN b ELSE Len(data)
    IN  IF a >= hi THEN <<>> ELSE SubSeq(data, a + 1, hi)

\* Big-endian unsigned value of a byte string: int.from_bytes(v, "big"),
\* struct.unpack(">I", v)[0], struct.unpack(">H", v)[0].
RECURSIVE BigEndian(_)
BigEndian(v) ==
    IF v = <<>> THEN 0
    ELSE 256 * BigEndian(SubSeq(v, 1, Len(v) - 1)) + v[Len(v)]

\* b ^ 0x20: bit 5 flipped.
Xor20(b) == IF (b \div 32) % 2 = 1 THEN b - 32 ELSE b + 32

\* ------------------------------------------------------------ unescape_hdlc

ESC == 125

\* "i + 1 < ln": the escape byte has a byte after it.
HasNext(i, ln) == i + 1 < ln

\* A faulty variant: the escaped byte copied without the XOR.
EscapedMut(data, i) == data[i + 2]

\* The byte an escape pair stands for: data[i + 1] ^ 0x20.
Escaped(data, i) == Xor20(data[i + 2])

UnescapeInit == [i |-> 0, out |-> <<>>, raised |-> FALSE]

\* One turn of "while i < ln".  data[i + 1] past the end is an IndexError.
UnescapeStep(data, s) ==
    LET b == data[s.i + 1]
    IN  IF b = ESC /\ HasNext(s.i, Len(data))
        THEN IF s.i + 1 >= Len(data)
             THEN [s EXCEPT !.raised = TRUE]
             ELSE [s EXCEPT !.i = s.i + 2, !.out = Append(s.out, Escaped(data, s.i))]
        ELSE [s EXCEPT !.i = s.i + 1, !.out = Append(s.out, b)]

\* ---------------------------------------------------- _safe_parse_timestamp

Digit(d) == <<"0", "1", "2", "3", "4", "5", "6", "7", "8", "9">>[d + 1]
Pad2(n) == Digit((n \div 10) % 10) \o Digit(n % 10)
Pad4(n) == Pad2(n \div 100) \o Pad2(n % 100)

IsLeap(y) == (y % 4 = 0) /\ ((y % 100 # 0) \/ (y % 400 = 0))
DaysInMonth(y, m) ==
    IF m = 2 THEN (IF IsLeap(y) THEN 29 ELSE 28)
    ELSE IF m \in {4, 6, 9, 11} THEN 30 ELSE 31

\* datetime(year, month, day, hour, minute) raises ValueError for a date or a
\* time of day that does not exist.
DatetimeRaises(y, m, d, h, mi) ==
    ~(  /\ 1 <= y /\ y <= 9999
        /\ 1 <= m /\ m <= 12
        /\ 1 <= d /\ d <= DaysInMonth(y, m)
        /\ 0 <= h /\ h <= 23
        /\ 0 <= mi /\ mi <= 59)

\* datetime.isoformat() with zero seconds and microseconds: YYYY-MM-DDTHH:MM:00.
IsoFormat(y, m, d, h, mi) ==
    Pad4(y) \o "-" \o Pad2(m) \o "-" \o Pad2(d) \o "T" \o Pad2(h) \o ":" \o Pad2(mi) \o ":00"

YearLo == 1970
YearHi == 2100

\* A faulty variant: the year's upper limit off by one.
GuardOkMut(year, month, day, hour, minute) ==
    /\ YearLo <= year /\ year <= YearHi + 1
    /\ 1 <= month /\ month <= 12 /\ 1 <= day /\ day <= 31
    /\ 0 <= hour /\ hour <= 23 /\ 0 <= minute /\ minute <= 59

\* "Guard against desync garbage": the two range tests.
GuardOk(year, month, day, hour, minute) ==
    /\ YearLo <= year /\ year <= YearHi
    /\ 1 <= month /\ month <= 12 /\ 1 <= day /\ day <= 31
    /\ 0 <= hour /\ hour <= 23 /\ 0 <= minute /\ minute <= 59

\* The fields the function reads from the 12 bytes.
TsYear(value) == BigEndian(Slice(value, 1, 3))
TsMonth(value) == value[4]
TsDay(value) == value[5]
TsHour(value) == value[7]
TsMinute(value) == value[8]

_safe_parse_timestamp(value) ==
    IF Len(value) # 12 \/ value[1] # 7 THEN None
    ELSE LET year == TsYear(value)
             month == TsMonth(value)
             day == TsDay(value)
             hour == TsHour(value)
             minute == TsMinute(value)
         IN  IF ~GuardOk(year, month, day, hour, minute) THEN None
             ELSE IF DatetimeRaises(year, month, day, hour, minute) THEN None
             ELSE IsoFormat(year, month, day, hour, minute)

\* --------------------------------------------------- bytes.decode / strip

\* value.decode(errors="ignore"): the UTF-8 code points of value, every byte
\* that is part of no well-formed sequence dropped.  After an ill-formed
\* sequence the decoder resumes at the first byte that did not fit.
RECURSIVE Utf8Ignore(_)
Utf8Ignore(v) ==
    IF v = <<>> THEN <<>>
    ELSE LET b == v[1]
             n == Len(v)
             Drop(k) == SubSeq(v, k + 1, n)
             In(k, lo, hi) == k <= n /\ lo <= v[k] /\ v[k] <= hi
             lo2 == IF b = 224 THEN 160 ELSE IF b = 240 THEN 144 ELSE 128
             hi2 == IF b = 237 THEN 159 ELSE IF b = 244 THEN 143 ELSE 191
         IN  IF b < 128 THEN <<b>> \o Utf8Ignore(Drop(1))
             ELSE IF 194 <= b /\ b <= 223
             THEN IF In(2, 128, 191)
                  THEN <<(b - 192) * 64 + (v[2] - 128)>> \o Utf8Ignore(Drop(2))
                  ELSE Utf8Ignore(Drop(1))
             ELSE IF 224 <= b /\ b <= 239
             THEN IF ~In(2, lo2, hi2) THEN Utf8Ignore(Drop(1))
                  ELSE IF ~In(3, 128, 191) THEN Utf8Ignore(Drop(2))
                  ELSE <<(b - 224) * 4096 + (v[2] - 128) * 64 + (v[3] - 128)>>
                       \o Utf8Ignore(Drop(3))
             ELSE IF 240 <= b /\ b <= 244
             THEN IF ~In(2, lo2, hi2) THEN Utf8Ignore(Drop(1))
                  ELSE IF ~In(3, 128, 191) THEN Utf8Ignore(Drop(2))
                  ELSE IF ~In(4, 128, 191) THEN Utf8Ignore(Drop(3))
                  ELSE <<(b - 240) * 262144 + (v[2] - 128) * 4096
                          + (v[3] - 128) * 64 + (v[4] - 128)>> \o Utf8Ignore(Drop(4))
             ELSE Utf8Ignore(Drop(1))

\* s.strip("\x00"): NUL characters removed from both ends.
RECURSIVE StripNul(_)
StripNul(s) ==
    IF s = <<>> THEN s
    ELSE IF s[1] = 0 THEN StripNul(Tail(s))
    ELSE IF s[Len(s)] = 0 THEN StripNul(SubSeq(s, 1, Len(s) - 1))
    ELSE s

\* ---------------------------------------------------------------- parse_tlv

T_STRUCTURE == 2
T_OCTET == 9
T_U32 == 6
T_U16 == 16
T_INT8 == 15
T_UINT8 == 17

\* A faulty variant: the test off by one, the byte just past the end accepted.
HasByteMut(payload, i) == i <= Len(payload)

\* "if i >= len(payload): break", negated: the byte at i exists.
HasByte(payload, i) == i < Len(payload)

\* "if i + n > len(payload): break", negated: n bytes from i exist.
HasBytes(payload, i, n) == i + n <= Len(payload)

\* The branch of an octet string: timestamp first, then by length.
ClassifyOctet(result, value, length) ==
    LET ts == _safe_parse_timestamp(value)
    IN  IF ts # None THEN Put(result, "timestamp", ts)
        ELSE IF length = 7 THEN AppendTo(result, "strings", Utf8Ignore(value))
        ELSE IF length = 16 THEN Put(result, "meter_id", StripNul(Utf8Ignore(value)))
        ELSE IF length = 8 THEN Put(result, "meter_model", Utf8Ignore(value))
        ELSE result

\* The state of one walk: the cursor i, the dict being filled, the 0x06 values
\* in encounter order; halted once a break left the loop, raised once an
\* exception left the function.  oob records a read whose index, or whose
\* slice end, lay beyond the buffer.
TlvInit ==
    [i |-> 0, result |-> EmptyMap, u32_values |-> <<>>,
     halted |-> FALSE, raised |-> FALSE, oob |-> FALSE]

\* A faulty variant: a break that throws away what was accumulated.
BreakMut(st, i) == [st EXCEPT !.i = i, !.halted = TRUE, !.result = EmptyMap, !.u32_values = <<>>]

\* "break": the cursor stays where the element left it, nothing else changes.
Break(st, i) == [st EXCEPT !.i = i, !.halted = TRUE]

\* payload[i] beyond the buffer (IndexError), struct.unpack of a short slice
\* (struct.error).
Raise(st, i) == [st EXCEPT !.i = i, !.raised = TRUE, !.oob = TRUE]

\* One turn of "while i < len(payload)".
TlvStep(payload, st) ==
    LET tag == payload[st.i + 1]
        i == st.i + 1
        ln == Len(payload)
    IN  IF tag = T_STRUCTURE
        THEN IF ~HasByte(payload, i) THEN Break(st, i)
             ELSE IF i >= ln THEN Raise(st, i)
             ELSE [st EXCEPT !.i = i + 1]
        ELSE IF tag = T_OCTET
        THEN IF ~HasByte(payload, i) THEN Break(st, i)
             ELSE IF i >= ln THEN Raise(st, i)
             ELSE LET length == payload[i + 1]
                      j == i + 1
                  IN  IF ~HasBytes(payload, j, length) THEN Break(st, j)
                      ELSE [st EXCEPT
                                !.i = j + length,
                                !.result = ClassifyOctet(st.result,
                                                Slice(payload, j, j + length), length),
                                !.oob = st.oob \/ (j + length > ln)]
        ELSE IF tag = T_U32
        THEN IF ~HasBytes(payload, i, 4) THEN Break(st, i)
             ELSE IF Len(Slice(payload, i, i + 4)) # 4 THEN Raise(st, i)
             ELSE [st EXCEPT
                       !.i = i + 4,
                       !.u32_values = Append(st.u32_values,
                                             BigEndian(Slice(payload, i, i + 4)))]
        ELSE IF tag = T_U16
        THEN IF ~HasBytes(payload, i, 2) THEN Break(st, i)
             ELSE IF Len(Slice(payload, i, i + 2)) # 2 THEN Raise(st, i)
             ELSE [st EXCEPT
                       !.i = i + 2,
                       !.result = AppendTo(st.result, "u16_values",
                                           BigEndian(Slice(payload, i, i + 2)))]
        ELSE IF tag \in {T_INT8, T_UINT8}
        THEN IF ~HasByte(payload, i) THEN Break(st, i)
             ELSE [st EXCEPT !.i = i + 1]
        ELSE Break(st, i)

\* The loop has left: exhausted, broken out of, or unwound by an exception.
TlvDone(payload, st) == st.halted \/ st.raised \/ st.i >= Len(payload)

RECURSIVE TlvRun(_, _)
TlvRun(payload, st) ==
    IF TlvDone(payload, st) THEN st ELSE TlvRun(payload, TlvStep(payload, st))

\* A faulty variant: the first nine values taken for the tail.
TailStartMut(u32_values) == 0

\* u32_values[-9:] starts here (0-based).
TailStart(u32_values) == Len(u32_values) - 9

\* tail[k] (0-based) of the last nine values.
TailAt(u32_values, k) == u32_values[TailStart(u32_values) + k + 1]

COUNTER_MIN == 100000

\* A faulty variant: the threshold itself counted as a counter value.
IsCounterMut(v) == v >= COUNTER_MIN

\* "if v > 100_000": the value counts as the cumulative counter.
IsCounter(v) == v > COUNTER_MIN

\* The value the "for v in u32_values" loop stops at, -1 when it runs through.
FirstCounter(u32_values) ==
    LET hits == {k \in 1..Len(u32_values) : IsCounter(u32_values[k])}
    IN  IF hits = {} THEN -1
        ELSE u32_values[CHOOSE k \in hits : \A h \in hits : k <= h]

\* "Mapping heuristics": what the code after the loop adds to result.
FieldMap(result, u32_values) ==
    LET r1 == IF u32_values # <<>>
              THEN Put(result, "active_power_import", u32_values[1])
              ELSE result
        r2 == IF Len(u32_values) >= 9
              THEN Put(Put(Put(Put(Put(Put(r1,
                     "current_l1", Scaled(TailAt(u32_values, 3), 1000)),
                     "current_l2", Scaled(TailAt(u32_values, 4), 1000)),
                     "current_l3", Scaled(TailAt(u32_values, 5), 1000)),
                     "voltage_l1", Scaled(TailAt(u32_values, 6), 10)),
                     "voltage_l2", Scaled(TailAt(u32_values, 7), 10)),
                     "voltage_l3", Scaled(TailAt(u32_values, 8), 10))
              ELSE r1
        c == FirstCounter(u32_values)
    IN  IF c # -1 THEN Put(r2, "active_import_total", Scaled(c, 1000)) ELSE r2

\* parse_tlv as a whole: the dict it returns when no exception leaves it.
parse_tlv(payload) ==
    LET st == TlvRun(payload, TlvInit) IN FieldMap(st.result, st.u32_values)

\* --------------------------------------------- decode_tibber_pulse_message

PRIMARY_ANCHOR == <<2, 13, 9, 7>>
FALLBACK_ANCHOR == <<9, 12, 7>>

\* data.find(pat): the lowest index where pat occurs, -1 when it does not.
Find(data, pat) ==
    LET at == {k \in 0..(Len(data) - Len(pat)) : Slice(data, k, k + Len(pat)) = pat}
    IN  IF at = {} THEN -1 ELSE CHOOSE k \in at : \A h \in at : k <= h

\* data[start:]
From(data, start) == Slice(data, start, Len(data))

\* ------------------------------------------------------------------ inputs

RECURSIVE Flatten(_)
Flatten(ss) == IF ss = <<>> THEN <<>> ELSE Head(ss) \o Flatten(Tail(ss))

\* The five bytes of a 0x06 element holding v.
U32Elem(v) ==
    <<T_U32, v \div 16777216, (v \div 65536) % 256, (v \div 256) % 256, v % 256>>

\* Octet strings of a Kaifa list: OBIS list id "KFM_001", a meter id padded
\* with NULs, the model "MA304H3E", and a model with bytes that are not UTF-8.
E_HDR == <<2, 13>>
E_STR7 == <<9, 7, 75, 70, 77, 95, 48, 48, 49>>
E_ID16 == <<9, 16, 55, 51, 53, 57, 57, 57, 50, 56, 57, 48, 57, 52, 0, 0, 0, 0>>
E_MODEL8 == <<9, 8, 77, 65, 51, 48, 52, 72, 51, 69>>
E_MODEL8_RAW == <<9, 8, 77, 255, 51, 195, 169, 72, 195, 69>>
E_U16 == <<T_U16, 1, 2>>
E_INT8 == <<T_INT8, 3>>
E_UINT8 == <<T_UINT8, 200>>

\* A 12-byte octet string 07 YY YY MM DD dow HH MM 00 00 00 00.
TsElem(y, m, d, h, mi) ==
    <<9, 12, 7, y \div 256, y % 256, m, d, 4, h, mi, 0, 0, 0, 0>>
E_TS == TsElem(2024, 2, 29, 10, 30)

\* The date-time 07 E9 0B 15 01 00 0A 1E 00 00 00 00 as an octet string.
E_TS_SAMPLE == <<9, 12, 7, 233, 11, 21, 1, 0, 10, 30, 0, 0, 0, 0>>

\* 0x06 values of the generated lists: list number s holds the master list
\* rotated by s, cut to its first k values.
U32Master == <<500, 99999, 100000, 100001, 10, 20, 30, 2300, 2310, 2320, 150000, 7, 250000>>
U32List(s, k) == [j \in 1..k |-> U32Master[((s + j - 1) % Len(U32Master)) + 1]]
U32Elems(vs) == Flatten([j \in 1..Len(vs) |-> U32Elem(vs[j])])

MaxU32 == 10
ListPayloads ==
    {E_HDR \o E_STR7 \o E_ID16 \o E_MODEL8 \o U32Elems(U32List(s, k)) :
        s \in 0..(Len(U32Master) - 1), k \in 0..MaxU32}

\* One full list, cut short at every length, and with one byte escaped at
\* every position.
FullList ==
    <<126>> \o E_HDR \o E_STR7 \o E_TS \o E_ID16 \o E_MODEL8_RAW \o E_U16 \o E_INT8
        \o U32Elems(U32List(1, 9)) \o E_UINT8 \o <<126>>
CutPayloads == {SubSeq(FullList, 1, n) : n \in 0..Len(FullList)}
EscapeAt(data, p) ==
    SubSeq(data, 1, p - 1) \o <<ESC, Xor20(data[p])>> \o SubSeq(data, p + 1, Len(data))
EscapedPayloads == {EscapeAt(FullList, p) : p \in 1..Len(FullList)}

\* Timestamp octet strings around every edge of the guard and of the calendar.
TsPayloads ==
    {TsElem(y, m, d, h, mi) :
        y \in {1969, 1970, 2024, 2100, 2101}, m \in {0, 2, 4, 12, 13},
        d \in {0, 1, 28, 29, 30, 31, 32}, h \in {23, 24}, mi \in {59, 60}}
    \cup {E_TS_SAMPLE, <<9, 12, 8>> \o SubSeq(E_TS, 4, 14)}

\* Every sequence of at most MaxSegs of these pieces: both anchors, whole and
\* bare, elements, an unknown tag, an escaped 0x02.
Segs ==
    << E_HDR \o E_STR7, <<2, 13, 9, 7>>, E_TS, U32Elem(150000), <<1>>, <<ESC, 34, 13>> >>
MaxSegs == 3
SegPayloads ==
    UNION {{Flatten([j \in 1..k |-> Segs[f[j]]]) : f \in [1..k -> 1..Len(Segs)]} :
              k \in 1..MaxSegs}

\* Every byte string of at most MaxNoiseLen bytes over a few tags, the escape
\* byte and filler.
NoiseBytes == {0, 2, 6, 9, 15, 16, 32, ESC}
MaxNoiseLen == 3
NoisePayloads == UNION {[1..k -> NoiseBytes] : k \in 0..MaxNoiseLen}

Payloads ==
    ListPayloads \cup CutPayloads \cup EscapedPayloads \cup TsPayloads
        \cup SegPayloads \cup NoisePayloads

\* ------------------------------------------------------------------- state

VARIABLES
    payload,    \* the argument of the decode_tibber_pulse_message call
    pc,         \* where that call stands
    us,         \* unescape_hdlc: i, out
    data,       \* the unescaped buffer
    anchor,     \* which anchor the current parse_tlv call started from
    tlv,        \* the argument of the current parse_tlv call
    st,         \* parse_tlv: i, result, u32_values
    decoded,    \* what the last parse_tlv call returned
    ret,        \* what decode_tibber_pulse_message returned
    raised,     \* an exception left decode_tibber_pulse_message
    _remove,    \* TibberPulseMQTTListener._remove: 0 for None, else a handle
    subs,       \* the subscriptions live at the MQTT client, by handle
    created,    \* how many subscriptions were ever made
    starts,     \* the start() calls in flight: where each stands, its handle
    stopped,    \* stop() has returned and no start() was called since
    snapshot,   \* coordinator.data: <<>> for None, else <<values>>
    seenKeys,   \* the keys earlier snapshots carried
    handled     \* how many messages the callback has handled (capped)

decVars == <<payload, pc, us, data, anchor, tlv, st, decoded, ret, raised>>
subVars == <<_remove, subs, created, starts, stopped>>
coordVars == <<snapshot, seenKeys, handled>>
vars == <<decVars, subVars, coordVars>>

\* The frame of a call that has not run a line yet.
Fresh(p) ==
    /\ payload = p
    /\ pc = "entry"
    /\ us = UnescapeInit
    /\ data = <<>>
    /\ anchor = "none"
    /\ tlv = <<>>
    /\ st = TlvInit
    /\ decoded = EmptyMap
    /\ ret = EmptyMap
    /\ raised = FALSE

\* A listener and a coordinator just constructed: no subscription, no data.
MaxStarts == 2
InitListener ==
    /\ _remove = 0
    /\ subs = {}
    /\ created = 0
    /\ starts = [t \in 1..MaxStarts |-> [at |-> "idle", handle |-> 0]]
    /\ stopped = FALSE
InitCoordinator ==
    /\ snapshot = <<>>
    /\ seenKeys = {}
    /\ handled = 0

InitDecode == (\E p \in Payloads : Fresh(p)) /\ InitListener /\ InitCoordinator

\* "if not payload: return {}", else the unescape loop starts.
DecodeEntry ==
    /\ pc = "entry"
    /\ IF payload = <<>>
       THEN pc' = "done" /\ ret' = EmptyMap
       ELSE pc' = "unescape" /\ ret' = ret
    /\ UNCHANGED <<payload, us, data, anchor, tlv, st, decoded, raised, subVars, coordVars>>

\* One turn of the loop of unescape_hdlc.
UnescapeLoop ==
    /\ pc = "unescape"
    /\ ~us.raised /\ us.i < Len(payload)
    /\ us' = UnescapeStep(payload, us)
    /\ UNCHANGED <<payload, pc, data, anchor, tlv, st, decoded, ret, raised, subVars, coordVars>>

\* "return bytes(out)": data = unescape_hdlc(payload).
UnescapeReturn ==
    /\ pc = "unescape"
    /\ us.raised \/ us.i >= Len(payload)
    /\ IF us.raised
       THEN pc' = "done" /\ raised' = TRUE /\ data' = data
       ELSE pc' = "find_primary" /\ raised' = raised /\ data' = us.out
    /\ UNCHANGED <<payload, us, anchor, tlv, st, decoded, ret, subVars, coordVars>>

\* The anchor search before a parse_tlv call; without the anchor the call is
\* skipped.
Locate(pat, name, miss) ==
    LET start == Find(data, pat)
    IN  /\ IF start # -1
           THEN /\ pc' = "walk"
                /\ anchor' = name
                /\ tlv' = From(data, start)
                /\ st' = TlvInit
                /\ ret' = ret
           ELSE /\ pc' = miss
                /\ ret' = IF miss = "done" THEN EmptyMap ELSE ret
                /\ UNCHANGED <<anchor, tlv, st>>
        /\ UNCHANGED <<payload, us, data, decoded, raised, subVars, coordVars>>

\* tlv_start = data.find(b"\x02\x0d\x09\x07")
FindPrimary == pc = "find_primary" /\ Locate(PRIMARY_ANCHOR, "primary", "find_fallback")

\* ts_start = data.find(b"\x09\x0c\x07"); not found: return {}.
FindFallback == pc = "find_fallback" /\ Locate(FALLBACK_ANCHOR, "fallback", "done")

\* One turn of the loop of parse_tlv.
TlvLoop ==
    /\ pc = "walk"
    /\ ~TlvDone(tlv, st)
    /\ st' = TlvStep(tlv, st)
    /\ UNCHANGED <<payload, pc, us, data, anchor, tlv, decoded, ret, raised, subVars, coordVars>>

\* A faulty variant: the fallback anchor tried whatever the primary parse gave.
AfterParseMut(name, d) == IF name = "primary" THEN "find_fallback" ELSE "done"

\* Where decode goes with what parse_tlv returned: "if decoded: return decoded",
\* else on to the fallback anchor, else "return {}".
AfterParse(name, d) ==
    IF DOMAIN d # {} THEN "done"
    ELSE IF name = "primary" THEN "find_fallback" ELSE "done"

\* The loop has left: the mapping heuristics run, parse_tlv returns, and
\* decode tests the dict it got.
TlvReturn ==
    /\ pc = "walk"
    /\ TlvDone(tlv, st)
    /\ IF st.raised
       THEN pc' = "done" /\ raised' = TRUE /\ UNCHANGED <<decoded, ret>>
       ELSE LET d == FieldMap(st.result, st.u32_values)
            IN  /\ decoded' = d
                /\ pc' = AfterParse(anchor, d)
                /\ ret' = IF pc' = "done" THEN d ELSE ret
                /\ raised' = raised
    /\ UNCHANGED <<payload, us, data, anchor, tlv, st, subVars, coordVars>>

NextDecode ==
    \/ DecodeEntry
    \/ UnescapeLoop
    \/ UnescapeReturn
    \/ FindPrimary
    \/ FindFallback
    \/ TlvLoop
    \/ TlvReturn

SpecDecode == InitDecode /\ [][NextDecode]_vars

\* ------------------------------------------------ TibberPulseMQTTListener

\* Subscriptions a run makes at most.
MaxSubs == 3

\* start() up to its await: "if self._remove is not None: return", else the
\* call to mqtt.async_subscribe begins and start() is suspended in it.
StartCall(t) ==
    /\ pc = "idle"
    /\ starts[t].at = "idle"
    /\ created + Cardinality({u \in DOMAIN starts : starts[u].at = "subscribing"}) < MaxSubs
    /\ starts' = IF _remove # 0 THEN starts ELSE [starts EXCEPT ![t].at = "subscribing"]
    /\ stopped' = FALSE
    /\ UNCHANGED <<_remove, subs, created, decVars, coordVars>>

\* mqtt.async_subscribe registers the subscription; its unsubscribe handle is
\* the value the await will give.
Subscribe(t) ==
    /\ pc = "idle"
    /\ starts[t].at = "subscribing"
    /\ created' = created + 1
    /\ subs' = subs \cup {created + 1}
    /\ starts' = [starts EXCEPT ![t] = [at |-> "resuming", handle |-> created + 1]]
    /\ UNCHANGED <<_remove, stopped, decVars, coordVars>>

\* start() resumes: "self._remove = await ...".
StartResume(t) ==
    /\ pc = "idle"
    /\ starts[t].at = "resuming"
    /\ _remove' = starts[t].handle
    /\ starts' = [starts EXCEPT ![t] = [at |-> "idle", handle |-> 0]]
    /\ UNCHANGED <<subs, created, stopped, decVars, coordVars>>

\* stop(): "if self._remove: self._remove(); self._remove = None".
Stop ==
    /\ pc = "idle"
    /\ subs' = IF _remove # 0 THEN subs \ {_remove} ELSE subs
    /\ _remove' = 0
    /\ stopped' = TRUE
    /\ UNCHANGED <<created, starts, decVars, coordVars>>

NextListener ==
    \/ \E t \in 1..MaxStarts : StartCall(t)
    \/ \E t \in 1..MaxStarts : Subscribe(t)
    \/ \E t \in 1..MaxStarts : StartResume(t)
    \/ Stop

\* The listener alone: no message arrives, the decoder frame stays idle.
InitIdle ==
    /\ payload = <<>>
    /\ pc = "idle"
    /\ us = UnescapeInit
    /\ data = <<>>
    /\ anchor = "none"
    /\ tlv = <<>>
    /\ st = TlvInit
    /\ decoded = EmptyMap
    /\ ret = EmptyMap
    /\ raised = FALSE

InitListening == InitIdle /\ InitListener /\ InitCoordinator

SpecListener == InitListening /\ [][NextListener]_vars

\* ------------------------------------- _message_received, coordinator, sensor

\* The payloads of the messages: a timestamp alone, a short list, a list of
\* nine u32 values, an unknown tag, a cut-short element, nothing.
MsgPayloads ==
    { E_TS,
      E_HDR \o E_STR7 \o U32Elem(150000),
      E_HDR \o E_STR7 \o E_MODEL8 \o U32Elems(U32List(1, 9)),
      <<1>>,
      E_HDR \o <<9, 7, 75>>,
      <<>> }

\* Messages a run handles at most (the count stops there, the messages do not).
MaxHandled == 3

\* The broker hands a message to the subscription's callback:
\* decode_tibber_pulse_message(msg.payload) is called.
MessageReceived(p) ==
    /\ pc = "idle"
    /\ subs # {}
    /\ payload' = p
    /\ pc' = "entry"
    /\ us' = UnescapeInit
    /\ data' = <<>>
    /\ anchor' = "none"
    /\ tlv' = <<>>
    /\ st' = TlvInit
    /\ decoded' = EmptyMap
    /\ ret' = EmptyMap
    /\ raised' = FALSE
    /\ UNCHANGED <<subVars, coordVars>>

\* A faulty variant: the new mapping merged into the old snapshot.
HandleDataMut(old, new) ==
    IF old = <<>> THEN <<new>>
    ELSE <<[k \in (DOMAIN old[1]) \cup (DOMAIN new) |->
                IF k \in DOMAIN new THEN new[k] ELSE old[1][k]]>>

\* _handle_data: async_set_updated_data(TibberPulseData(values=decoded)).
HandleData(old, new) == <<new>>

\* The rest of _message_received: an exception from decode is logged and the
\* callback is not called; else self._on_message(decoded).
Deliver ==
    /\ pc = "done"
    /\ pc' = "idle"
    /\ IF raised
       THEN UNCHANGED coordVars
       ELSE /\ snapshot' = HandleData(snapshot, ret)
            /\ seenKeys' = IF snapshot = <<>> THEN seenKeys
                           ELSE seenKeys \cup DOMAIN snapshot[1]
            /\ handled' = IF handled < MaxHandled THEN handled + 1 ELSE handled
    /\ UNCHANGED <<payload, us, data, anchor, tlv, st, decoded, ret, raised, subVars>>

\* suggested_display_precision of the sensor with this key, -1 for None.
Precision(key) ==
    IF key \in {"voltage_l1", "voltage_l2", "voltage_l3"} THEN 1
    ELSE IF key \in {"current_l1", "current_l2", "current_l3", "active_import_total"} THEN 3
    ELSE -1

SensorKeys ==
    {"active_power_import", "voltage_l1", "voltage_l2", "voltage_l3", "current_l1",
     "current_l2", "current_l3", "active_import_total", "meter_id", "meter_model"}

\* round(val, prec) of a decimal: unchanged when it has no more than prec
\* places, else cut to prec places, the nearest one (ties to even).
Pow10(n) == IF n = 1 THEN 10 ELSE IF n = 2 THEN 100 ELSE IF n = 3 THEN 1000 ELSE 1
Round(val, prec) ==
    IF val.den <= Pow10(prec) THEN val
    ELSE LET num == val.frac * Pow10(prec)
             q == num \div val.den
             r == num % val.den
             up == (2 * r > val.den) \/ (2 * r = val.den /\ q % 2 = 1)
             f == IF up THEN q + 1 ELSE q
         IN  IF f = Pow10(prec)
             THEN [whole |-> val.whole + 1, frac |-> 0, den |-> Pow10(prec)]
             ELSE [whole |-> val.whole, frac |-> f, den |-> Pow10(prec)]

\* TibberPulseSensor.native_value: <<>> for None, else <<value>>.
NativeValue(key) ==
    IF snapshot = <<>> THEN <<>>
    ELSE IF key \notin DOMAIN snapshot[1] THEN <<>>
    ELSE IF Precision(key) # -1 THEN <<Round(snapshot[1][key], Precision(key))>>
    ELSE <<snapshot[1][key]>>

\* A started listener: one subscription, its handle stored.
InitStarted ==
    /\ _remove = 1
    /\ subs = {1}
    /\ created = 1
    /\ starts = [t \in 1..MaxStarts |-> [at |-> "idle", handle |-> 0]]
    /\ stopped = FALSE

NextMessages ==
    \/ \E p \in MsgPayloads : MessageReceived(p)
    \/ NextDecode
    \/ Deliver

InitMessages == InitIdle /\ InitStarted /\ InitCoordinator

SpecMessages == InitMessages /\ [][NextMessages]_vars

\* ------------------------------------------------------------------ claims

\* parse_tlv has returned to decode, and st, decoded are that call's.
Parsed == pc = "done" /\ anchor # "none" /\ ~raised

\* C1: what is left of the call: the stages still ahead, then the bytes the
\* running loop has not consumed.
C1_Stage ==
    CASE pc = "entry" -> 6
      [] pc = "unescape" -> 5
      [] pc = "find_primary" -> 4
      [] pc = "walk" /\ anchor = "primary" -> 3
      [] pc = "find_fallback" -> 2
      [] pc = "walk" /\ anchor = "fallback" -> 1
      [] OTHER -> 0
C1_Left ==
    CASE pc = "unescape" -> Len(payload) - us.i
      [] pc = "walk" -> Len(tlv) - st.i
      [] OTHER -> 0
C1_Measure == C1_Stage * (Len(payload) + 1) + C1_Left

\* C1: for every payload (the empty one and noise included) no exception is
\* raised, in unescape_hdlc, in parse_tlv or past the call's own boundary; the
\* call terminates (every step lowers a measure that is never negative, and
\* at each place before the return the loop turn and the loop exit have
\* complementary guards, so a step is always there to take); and what it
\* returns is a mapping over the output keys.
C1_NeverRaises ==
    /\ [](~raised /\ ~us.raised /\ ~st.raised)
    /\ [](C1_Measure >= 0)
    /\ [][C1_Measure' < C1_Measure]_vars
    /\ [](pc = "done" => DOMAIN ret \subseteq
            {"timestamp", "strings", "meter_id", "meter_model", "u16_values",
             "active_power_import", "active_import_total", "current_l1", "current_l2",
             "current_l3", "voltage_l1", "voltage_l2", "voltage_l3"})

\* A cut-short list came back as a partial, non-empty mapping.
C1_Witness ==
    /\ pc = "done" /\ ~raised /\ st.halted
    /\ payload \in CutPayloads /\ ret # EmptyMap

\* C2: the first place pat occurs in buf, -1 when nowhere.
C2_Occurs(buf, pat, k) == k + Len(pat) <= Len(buf) /\ SubSeq(buf, k + 1, k + Len(pat)) = pat
C2_First(buf, pat) ==
    IF \E k \in 0..Len(buf) : C2_Occurs(buf, pat, k)
    THEN CHOOSE k \in 0..Len(buf) :
            C2_Occurs(buf, pat, k) /\ \A h \in 0..(k - 1) : ~C2_Occurs(buf, pat, h)
    ELSE -1
C2_ParseAt(buf, pat) ==
    IF C2_First(buf, pat) = -1 THEN EmptyMap
    ELSE parse_tlv(SubSeq(buf, C2_First(buf, pat) + 1, Len(buf)))

\* C2: with data the payload unescaped once (by the one run of the unescape
\* loop), the returned mapping is the parse from the primary anchor 02 0D 09 07
\* of data when that is non-empty, else the parse from the
\* fallback anchor 09 0C 07 when that is non-empty, else empty; the fallback
\* parse is never the one in use when the primary one yields a field; an empty
\* payload returns the empty mapping.
C2_AnchorOrder ==
    pc = "done" =>
        LET prim == C2_ParseAt(data, <<2, 13, 9, 7>>)
            fall == C2_ParseAt(data, <<9, 12, 7>>)
        IN  /\ ~raised
            /\ payload = <<>> => ret = EmptyMap
            /\ payload # <<>> =>
                 /\ ret = IF prim # EmptyMap THEN prim ELSE fall
                 /\ anchor = "fallback" => prim = EmptyMap

\* The primary anchor is there and yields nothing; the fallback parse is returned.
C2_Witness ==
    /\ pc = "done" /\ anchor = "fallback" /\ ret # EmptyMap
    /\ Find(data, PRIMARY_ANCHOR) # -1

\* The walk started on a 12-byte octet string and has just consumed it.
FirstOctet12 == pc = "walk" /\ Len(tlv) >= 14 /\ tlv[1] = 9 /\ tlv[2] = 12 /\ st.i = 14

\* C3: parsing the octet string 09 0C 07 E9 0B 15 01 00 0A 1E 00 00 00 00 stores
\* timestamp = "2025-11-21T10:30:00".
C3_SampleTimestamp ==
    (FirstOctet12 /\ SubSeq(tlv, 1, 14) = <<9, 12, 7, 233, 11, 21, 1, 0, 10, 30, 0, 0, 0, 0>>)
        => /\ "timestamp" \in DOMAIN st.result
           /\ st.result["timestamp"] = "2025-11-21T10:30:00"

\* C4: the element at cursor i has a known tag and needs more bytes than remain
\* (a count, length or value byte is missing, or the declared length overruns).
C4_Truncated(buf, i) ==
    /\ i < Len(buf)
    /\ LET tag == buf[i + 1]
       IN  \/ tag \in {2, 15, 17} /\ i + 2 > Len(buf)
           \/ tag = 9 /\ (i + 2 > Len(buf) \/ i + 2 + buf[i + 2] > Len(buf))
           \/ tag = 6 /\ i + 5 > Len(buf)
           \/ tag = 16 /\ i + 3 > Len(buf)

\* C4: the walk never reads at or beyond the end of the buffer; a turn that
\* starts on a truncated element halts the walk and leaves the accumulated
\* values as they were; the mapping parse_tlv returns holds every accumulated
\* field and the first accumulated u32.
C4_HaltKeepsValues ==
    /\ [](~st.oob /\ ~st.raised /\ st.i <= Len(tlv))
    /\ [][(pc = "walk" /\ pc' = "walk" /\ C4_Truncated(tlv, st.i))
            => (st'.halted /\ st'.result = st.result /\ st'.u32_values = st.u32_values)]_vars
    /\ [](Parsed =>
            /\ \A k \in DOMAIN st.result : k \in DOMAIN decoded /\ decoded[k] = st.result[k]
            /\ st.u32_values # <<>> =>
                 /\ "active_power_import" \in DOMAIN decoded
                 /\ decoded["active_power_import"] = st.u32_values[1])

\* The walk stopped inside a 0x06 element with fewer than four bytes left, and
\* the mapping returned holds what came before it.
C4_Witness ==
    /\ Parsed /\ st.halted /\ st.i >= 1 /\ tlv[st.i] = 6 /\ st.i + 4 > Len(tlv)
    /\ st.u32_values # <<>>
    /\ {"timestamp", "meter_id", "meter_model", "strings", "u16_values",
        "active_power_import"} \subseteq DOMAIN ret

\* C5: b XOR 0x20 moves b by 32 inside its block of 64.
C5_Xor(b) == (64 * (b \div 64)) + (((b % 64) + 32) % 64)

\* C5: scanning s from the left, the byte at k is the second byte of an escape
\* pair exactly when an odd number of 7D bytes stand directly before it.
C5_RunBefore(s, k) ==
    LET stops == {j \in 1..(k - 1) : s[j] # 125}
    IN  IF stops = {} THEN k - 1
        ELSE k - 1 - (CHOOSE j \in stops : \A h \in stops : h <= j)
C5_Second(s, k) == C5_RunBefore(s, k) % 2 = 1

\* C5: the places that emit a byte: the second byte of a pair (emitting its
\* XOR), any other byte that is not 7D, and a 7D that ends the input.
C5_Emits(s, k) == C5_Second(s, k) \/ s[k] # 125 \/ k = Len(s)
C5_Scan(s) ==
    LET P == {k \in 1..Len(s) : C5_Emits(s, k)}
    IN  [n \in 1..Cardinality(P) |->
            LET k == CHOOSE k \in P : Cardinality({j \in P : j <= k}) = n
            IN  IF C5_Second(s, k) THEN C5_Xor(s[k]) ELSE s[k]]

\* C5: the unescaped buffer is that scan of the payload; 7D 20 gives the single
\* byte 00, a lone 7D at the end gives 7D, and the output is never longer than
\* the input.
C5_Unescape ==
    (pc = "find_primary" /\ payload # <<>>) =>
        /\ data = C5_Scan(payload)
        /\ Len(data) <= Len(payload)
        /\ payload = <<125, 32>> => data = <<0>>
        /\ payload = <<125>> => data = <<125>>
        /\ (\A k \in 1..Len(payload) : (payload[k] = 125) <=> (k = Len(payload)))
             => data = payload

\* An escape pair followed by a lone trailing escape byte.
C5_Witness == pc = "find_primary" /\ payload = <<125, 32, 125>> /\ data = <<0, 125>>

\* C6: the last nine u32 values, tail[k] with k from 0.
C6_Tail(u, k) == u[Len(u) - 9 + k + 1]
C6_Key(name, k) == name \o <<"1", "2", "3">>[k]

\* C6: active_power_import is present iff there is a u32 value, and is the
\* first one; current_lk and voltage_lk are present iff there are nine or more,
\* and are tail[2+k]/1000 and tail[5+k]/10; a tail ending 10, 20, 30, 2300,
\* 2310, 2320 gives 0.010, 0.020, 0.030 A and 230.0, 231.0, 232.0 V.
C6_FieldMapping ==
    Parsed =>
        LET u == st.u32_values
        IN  /\ ("active_power_import" \in DOMAIN decoded) <=> (u # <<>>)
            /\ u # <<>> => decoded["active_power_import"] = u[1]
            /\ \A k \in 1..3 :
                 /\ (C6_Key("current_l", k) \in DOMAIN decoded) <=> (Len(u) >= 9)
                 /\ (C6_Key("voltage_l", k) \in DOMAIN decoded) <=> (Len(u) >= 9)
                 /\ Len(u) >= 9 =>
                      /\ decoded[C6_Key("current_l", k)] = Scaled(C6_Tail(u, 2 + k), 1000)
                      /\ decoded[C6_Key("voltage_l", k)] = Scaled(C6_Tail(u, 5 + k), 10)
            /\ (Len(u) >= 9 /\ SubSeq(u, Len(u) - 5, Len(u)) = <<10, 20, 30, 2300, 2310, 2320>>)
                 => /\ decoded["current_l1"] = [whole |-> 0, frac |-> 10, den |-> 1000]
                    /\ decoded["current_l2"] = [whole |-> 0, frac |-> 20, den |-> 1000]
                    /\ decoded["current_l3"] = [whole |-> 0, frac |-> 30, den |-> 1000]
                    /\ decoded["voltage_l1"] = [whole |-> 230, frac |-> 0, den |-> 10]
                    /\ decoded["voltage_l2"] = [whole |-> 231, frac |-> 0, den |-> 10]
                    /\ decoded["voltage_l3"] = [whole |-> 232, frac |-> 0, den |-> 10]

\* Ten u32 values, the last nine of them the tail of the example.
C6_Witness ==
    /\ Parsed /\ Len(st.u32_values) = 10
    /\ SubSeq(st.u32_values, 5, 10) = <<10, 20, 30, 2300, 2310, 2320>>
    /\ ret["current_l1"] = [whole |-> 0, frac |-> 10, den |-> 1000]
    /\ ret["voltage_l3"] = [whole |-> 232, frac |-> 0, den |-> 10]
    /\ ret["active_power_import"] = 500

\* C7: active_import_total is present iff some u32 value is above 100,000, and
\* is the first such value in encounter order divided by 1000 (150000 gives
\* 150.0); later values never replace it.
C7_ImportTotal ==
    Parsed =>
        LET u == st.u32_values
            over == {j \in 1..Len(u) : u[j] > 100000}
        IN  /\ ("active_import_total" \in DOMAIN decoded) <=> (over # {})
            /\ \A j \in over :
                 (\A h \in over : j <= h) =>
                    /\ decoded["active_import_total"].whole * 1000
                         + decoded["active_import_total"].frac = u[j]
                    /\ decoded["active_import_total"].den = 1000
                    /\ u[j] = 150000 =>
                         decoded["active_import_total"] = [whole |-> 150, frac |-> 0, den |-> 1000]

\* 150000 is the first value above the threshold, 250000 comes later.
C7_Witness ==
    /\ Parsed /\ Len(st.u32_values) >= 3
    /\ \E j \in 1..Len(st.u32_values) : st.u32_values[j] = 100000
    /\ \E j \in 1..Len(st.u32_values) : st.u32_values[j] = 250000
    /\ ret["active_import_total"] = [whole |-> 150, frac |-> 0, den |-> 1000]

\* C8: the ranges of the claim, read from the 12 bytes tlv[3..14].
C8_InRanges ==
    LET year == 256 * tlv[4] + tlv[5]
    IN  /\ 1970 <= year /\ year <= 2100
        /\ 1 <= tlv[6] /\ tlv[6] <= 12
        /\ 1 <= tlv[7] /\ tlv[7] <= 31
        /\ 0 <= tlv[9] /\ tlv[9] <= 23
        /\ 0 <= tlv[10] /\ tlv[10] <= 59

\* The day exists in that month of that year (Gregorian calendar).
C8_DayExists ==
    LET year == 256 * tlv[4] + tlv[5]
        leap == year % 4 = 0 /\ (year % 100 # 0 \/ year % 400 = 0)
        len == <<31, IF leap THEN 29 ELSE 28, 31, 30, 31, 30, 31, 31, 30, 31, 30, 31>>
    IN  tlv[6] \in 1..12 /\ tlv[7] <= len[tlv[6]]

\* C8 as claimed: a 12-byte value starting 07 yields a timestamp exactly when
\* its fields are in the ranges, with no day-of-month or leap-year check.
C8_RangesOnly ==
    (FirstOctet12 /\ tlv[3] = 7) => (("timestamp" \in DOMAIN st.result) <=> C8_InRanges)

\* C8 amended: ... exactly when its fields are in the ranges and the day exists
\* in that month of that year.
C8_RangesAndCalendar ==
    (FirstOctet12 /\ tlv[3] = 7) =>
        (("timestamp" \in DOMAIN st.result) <=> (C8_InRanges /\ C8_DayExists))

\* 29 February of a leap year passes and is formatted to the minute.
C8_Witness ==
    /\ FirstOctet12 /\ SubSeq(tlv, 3, 10) = <<7, 7, 232, 2, 29, 4, 23, 59>>
    /\ "timestamp" \in DOMAIN st.result
    /\ st.result["timestamp"] = "2024-02-29T23:59:00"


\* C9: a start() call is between the registration of its subscription and its
\* assignment of _remove.
C9_Resuming == \E t \in DOMAIN starts : starts[t].at = "resuming"

\* C9: under any interleaving of start() and stop() the listener never holds
\* more than one live subscription, every live subscription's handle is the one
\* in _remove (once the start() that made it has resumed), and once stop() has
\* returned with no start() called since, no subscription is live.
C9_OneSubscription ==
    /\ Cardinality(subs) <= 1
    /\ ~C9_Resuming => subs \subseteq {_remove}
    /\ stopped => subs = {}

\* C10: between two messages the snapshot is exactly the mapping the decode of
\* the latest message returned, the empty mapping included, with no key of an
\* earlier snapshot kept; a sensor whose key that mapping lacks reports None,
\* the others report its value; a decode that raises leaves the snapshot alone.
C10_LatestSnapshot ==
    /\ [](pc = "idle" =>
            /\ handled = 0 => snapshot = <<>>
            /\ handled > 0 =>
                 /\ snapshot = <<ret>>
                 /\ \A key \in SensorKeys :
                      /\ key \notin DOMAIN ret => NativeValue(key) = <<>>
                      /\ key \in DOMAIN ret => NativeValue(key) = <<ret[key]>>)
    /\ [][(pc = "done" /\ raised) => snapshot' = snapshot]_vars
    /\ [][pc # "done" => snapshot' = snapshot]_vars

\* A later message without active_power_import followed one that carried it:
\* the sensor reports None.
C10_Witness ==
    /\ pc = "idle" /\ handled >= 2
    /\ "active_power_import" \in seenKeys
    /\ "active_power_import" \notin DOMAIN snapshot[1]
    /\ "timestamp" \in DOMAIN snapshot[1]
    /\ NativeValue("active_power_import") = <<>>
    /\ NativeValue("meter_model") = <<>>

====
